---- MODULE Spec2Model ----
(***************************************************************************)
(* A model of the notebook "Misc/Numerical Analysis.ipynb": the weighted   *)
(* sum written as a Python loop (CropYield, Dot), the numpy dot product    *)
(* and matrix-vector product, the benchmark of loop against np.dot, and    *)
(* the concatenation of the yield column onto the climate table.           *)
(*                                                                         *)
(* Numbers are modelled as the interpreter holds them:                     *)
(*   - a Python int is an integer of unbounded size (sign and magnitude);  *)
(*   - a Python float / numpy float64 is an IEEE-754 binary64 value with   *)
(*     round-to-nearest-even (finite, normal values only);                 *)
(*   - a numpy integer array element has IntBits bits and wraps around.    *)
(* TLC's own integers have 32 bits, so magnitudes are kept as sequences of *)
(* 15-bit limbs, least significant limb first.                             *)
(***************************************************************************)
EXTENDS Integers, Sequences, FiniteSets, TLC

(***************************************************************************)
(* Unbounded naturals: little-endian limb sequences, no leading zero limb. *)
(***************************************************************************)
Base == 2^15

Pow2(n) == 2^n

RECURSIVE BNorm(_)
BNorm(a) ==
  IF a = <<>> THEN <<>>
  ELSE IF a[Len(a)] = 0 THEN BNorm(SubSeq(a, 1, Len(a) - 1))
  ELSE a

RECURSIVE BFromNat(_)
BFromNat(n) ==
  IF n = 0 THEN <<>> ELSE <<n % Base>> \o BFromNat(n \div Base)

RECURSIVE BAddC(_, _, _)
BAddC(a, b, c) ==
  IF a = <<>> /\ b = <<>> THEN (IF c = 0 THEN <<>> ELSE <<c>>)
  ELSE LET x == IF a = <<>> THEN 0 ELSE Head(a)
           y == IF b = <<>> THEN 0 ELSE Head(b)
           t == x + y + c
       IN  <<t % Base>> \o BAddC(IF a = <<>> THEN <<>> ELSE Tail(a),
                                 IF b = <<>> THEN <<>> ELSE Tail(b),
                                 t \div Base)

BAdd(a, b) == BAddC(a, b, 0)

\* a - b for a >= b, limb by limb with a borrow
RECURSIVE BSubC(_, _, _)
BSubC(a, b, c) ==
  IF a = <<>> THEN <<>>
  ELSE LET y == IF b = <<>> THEN 0 ELSE Head(b)
           t == Head(a) - y - c
       IN  <<IF t < 0 THEN t + Base ELSE t>>
             \o BSubC(Tail(a), IF b = <<>> THEN <<>> ELSE Tail(b),
                      IF t < 0 THEN 1 ELSE 0)

BSub(a, b) == BNorm(BSubC(a, b, 0))

\* -1, 0, 1 as a < b, a = b, a > b
RECURSIVE BCmpFrom(_, _, _)
BCmpFrom(a, b, i) ==
  IF i = 0 THEN 0
  ELSE IF a[i] < b[i] THEN -1
  ELSE IF a[i] > b[i] THEN 1
  ELSE BCmpFrom(a, b, i - 1)

BCmp(a, b) ==
  IF Len(a) < Len(b) THEN -1
  ELSE IF Len(a) > Len(b) THEN 1
  ELSE BCmpFrom(a, b, Len(a))

\* a * k for 0 <= k < Base
RECURSIVE BMulSmallC(_, _, _)
BMulSmallC(a, k, c) ==
  IF a = <<>> THEN (IF c = 0 THEN <<>> ELSE <<c>>)
  ELSE LET t == Head(a) * k + c
       IN  <<t % Base>> \o BMulSmallC(Tail(a), k, t \div Base)

BMulSmall(a, k) == IF k = 0 THEN <<>> ELSE BMulSmallC(a, k, 0)

RECURSIVE BMul(_, _)
BMul(a, b) ==
  IF a = <<>> \/ b = <<>> THEN <<>>
  ELSE LET rest == BMul(a, Tail(b))
       IN  BAdd(BMulSmall(a, Head(b)),
                IF rest = <<>> THEN <<>> ELSE <<0>> \o rest)

\* quotient and remainder of a by k, 0 < k <= Base, from the top limb down
RECURSIVE BDivSmallFrom(_, _, _, _)
BDivSmallFrom(a, k, i, r) ==
  IF i = 0 THEN [q |-> <<>>, r |-> r]
  ELSE LET t    == r * Base + a[i]
           rest == BDivSmallFrom(a, k, i - 1, t % k)
       IN  [q |-> rest.q \o <<t \div k>>, r |-> rest.r]

BDivSmall(a, k) ==
  LET d == BDivSmallFrom(a, k, Len(a), 0) IN [q |-> BNorm(d.q), r |-> d.r]

RECURSIVE SmallBitLen(_)
SmallBitLen(n) == IF n = 0 THEN 0 ELSE 1 + SmallBitLen(n \div 2)

BBitLen(a) ==
  IF a = <<>> THEN 0 ELSE 15 * (Len(a) - 1) + SmallBitLen(a[Len(a)])

Zeros(n) == [i \in 1..n |-> 0]

BShl(a, n) ==
  IF a = <<>> THEN <<>>
  ELSE Zeros(n \div 15) \o BMulSmall(a, Pow2(n % 15))

BShr(a, n) ==
  IF n \div 15 >= Len(a) THEN <<>>
  ELSE BDivSmall(SubSeq(a, n \div 15 + 1, Len(a)), Pow2(n % 15)).q

BIsOdd(a) == a # <<>> /\ a[1] % 2 = 1

(***************************************************************************)
(* Signed exact values s, m, e standing for (-1)^s * m * 2^e.  Zero is     *)
(* always written s = 0, m = <<>>, e = 0.                                  *)
(***************************************************************************)
Min(a, b) == IF a < b THEN a ELSE b

\* the exact sum of (-1)^s1 * m1 and (-1)^s2 * m2
SAdd(s1, m1, s2, m2) ==
  IF s1 = s2 THEN [s |-> IF BAdd(m1, m2) = <<>> THEN 0 ELSE s1, m |-> BAdd(m1, m2)]
  ELSE IF BCmp(m1, m2) = 0 THEN [s |-> 0, m |-> <<>>]
  ELSE IF BCmp(m1, m2) > 0 THEN [s |-> s1, m |-> BSub(m1, m2)]
  ELSE [s |-> s2, m |-> BSub(m2, m1)]

\* the exact sum of two dyadic values, at the smaller of the two exponents
DAdd(x, y) ==
  IF x.m = <<>> THEN [s |-> y.s, m |-> y.m, e |-> y.e]
  ELSE IF y.m = <<>> THEN [s |-> x.s, m |-> x.m, e |-> x.e]
  ELSE LET e0 == Min(x.e, y.e)
           r  == SAdd(x.s, BShl(x.m, x.e - e0), y.s, BShl(y.m, y.e - e0))
       IN  [s |-> r.s, m |-> r.m, e |-> IF r.m = <<>> THEN 0 ELSE e0]

DMul(x, y) ==
  IF x.m = <<>> \/ y.m = <<>> THEN [s |-> 0, m |-> <<>>, e |-> 0]
  ELSE [s |-> (x.s + y.s) % 2, m |-> BMul(x.m, y.m), e |-> x.e + y.e]

DNeg(x) == [s |-> IF x.m = <<>> THEN 0 ELSE 1 - x.s, m |-> x.m, e |-> x.e]

\* -1, 0, 1 as x < y, x = y, x > y (by value)
DCmp(x, y) ==
  LET d == DAdd(x, DNeg(y))
  IN  IF d.m = <<>> THEN 0 ELSE IF d.s = 1 THEN -1 ELSE 1

(***************************************************************************)
(* IEEE-754 binary64, round to nearest, ties to even.  A float is          *)
(* [t |-> "float", s, m, e] with 2^52 <= m < 2^53, or zero.                *)
(***************************************************************************)
MantBits == 53

FZero == [t |-> "float", s |-> 0, m |-> <<>>, e |-> 0]

\* faulty rounding: the discarded bits dropped
BTruncShr(m, k) == BShr(m, k)

\* m / 2^k rounded to the nearest integer, ties to even
BRoundShr(m, k) ==
  IF k = 0 THEN m
  ELSE LET q == BShr(m, k)
           c == BCmp(BSub(m, BShl(q, k)), BShl(<<1>>, k - 1))
       IN  IF c > 0 \/ (c = 0 /\ BIsOdd(q)) THEN BAdd(q, <<1>>) ELSE q

FRound(s, m, e) ==
  LET L == BBitLen(m) IN
  IF L = 0 THEN FZero
  ELSE IF L <= MantBits
    THEN [t |-> "float", s |-> s, m |-> BShl(m, MantBits - L), e |-> e - (MantBits - L)]
  ELSE LET k == L - MantBits
           q == BRoundShr(m, k)
       IN  IF BBitLen(q) > MantBits
             THEN [t |-> "float", s |-> s, m |-> BShr(q, 1), e |-> e + k + 1]
             ELSE [t |-> "float", s |-> s, m |-> q, e |-> e + k]

\* Python numbers: [t |-> "int", s, m] is the integer (-1)^s * m
PyInt(n) ==
  [t |-> "int", s |-> IF n < 0 THEN 1 ELSE 0, m |-> BFromNat(IF n < 0 THEN -n ELSE n)]

\* the value of a number as an exact dyadic
Dy(x) == [s |-> x.s, m |-> x.m, e |-> IF x.t = "int" THEN 0 ELSE x.e]

FromDy(d) == FRound(d.s, d.m, d.e)

\* float(x): the int to float conversion of mixed arithmetic
ToFloat(x) == IF x.t = "float" THEN x ELSE FRound(x.s, x.m, 0)

\* the float literal digits * 10^(-k), correctly rounded (strtod)
RECURSIVE Pow10(_)
Pow10(k) == IF k = 0 THEN 1 ELSE 10 * Pow10(k - 1)

FloatLit(digits, k) ==
  LET d == BDivSmall(BShl(BFromNat(digits), 75), Pow10(k))
      m == BAdd(BShl(d.q, 1), IF d.r = 0 THEN <<>> ELSE <<1>>)
  IN  FRound(0, m, -76)

\* x * y and x + y as the interpreter evaluates them
PyMul(x, y) ==
  IF x.t = "int" /\ y.t = "int"
    THEN LET p == DMul(Dy(x), Dy(y)) IN [t |-> "int", s |-> p.s, m |-> p.m]
    ELSE FromDy(DMul(Dy(ToFloat(x)), Dy(ToFloat(y))))

PyAdd(x, y) ==
  IF x.t = "int" /\ y.t = "int"
    THEN LET r == SAdd(x.s, x.m, y.s, y.m) IN [t |-> "int", s |-> r.s, m |-> r.m]
    ELSE FromDy(DAdd(Dy(ToFloat(x)), Dy(ToFloat(y))))

\* x == y: Python compares an int with a float by exact value
PyEq(x, y) == DCmp(Dy(x), Dy(y)) = 0

(***************************************************************************)
(* numpy arrays.  np.array of a list of Python ints is an integer array of *)
(* IntBits bits (the width the notebook's own np.dot output shows); of a   *)
(* list holding a float, or of an empty list, a float64 array.             *)
(***************************************************************************)
IntBits == 32

AllInt(l) == \A i \in 1..Len(l) : l[i].t = "int"

IsIntArray(l) == l # <<>> /\ AllInt(l)

\* the low IntBits bits of a Python int, read as a signed integer
\* a faulty reduction: into 0 .. 2^IntBits - 1
WrapUnsigned(x) ==
  LET low == BSub(x.m, BShl(BShr(x.m, IntBits), IntBits))
  IN  [t |-> "int", s |-> 0,
       m |-> IF x.s = 1 /\ low # <<>> THEN BSub(BShl(<<1>>, IntBits), low) ELSE low]

WrapInt(x) ==
  LET low == BSub(x.m, BShl(BShr(x.m, IntBits), IntBits))
      u   == IF x.s = 1 /\ low # <<>> THEN BSub(BShl(<<1>>, IntBits), low) ELSE low
  IN  IF BBitLen(u) = IntBits
        THEN [t |-> "int", s |-> 1, m |-> BSub(BShl(<<1>>, IntBits), u)]
        ELSE [t |-> "int", s |-> 0, m |-> u]

\* The order in which a float64 dot product is accumulated is the BLAS
\* kernel's: products rounded one by one, or fused multiply-adds.
Kernels == {"sequential", "fma"}

\* one multiply-accumulate step of np.dot / np.matmul
DotStep(kernel, acc, x, y) ==
  IF kernel = "int" THEN WrapInt(PyAdd(acc, WrapInt(PyMul(x, y))))
  ELSE IF kernel = "fma"
    THEN FromDy(DAdd(Dy(acc), DMul(Dy(ToFloat(x)), Dy(ToFloat(y)))))
  ELSE PyAdd(acc, PyMul(ToFloat(x), ToFloat(y)))

RECURSIVE DotFrom(_, _, _, _, _)
DotFrom(kernel, x, y, i, acc) ==
  IF i > Len(x) THEN acc
  ELSE DotFrom(kernel, x, y, i + 1, DotStep(kernel, acc, x[i], y[i]))

\* np.dot(np.array(x), np.array(y)) for two lists of equal length
DotValue(kernel, x, y) ==
  IF IsIntArray(x) /\ IsIntArray(y) THEN DotFrom("int", x, y, 1, PyInt(0))
  ELSE DotFrom(kernel, x, y, 1, FZero)

Raise(e) == [ok |-> FALSE, err |-> e, v |-> <<>>]

Return(v) == [ok |-> TRUE, err |-> "none", v |-> v]

\* np.dot of two one-dimensional arrays: the value, or the exception raised
NpDot(kernel, x, y) ==
  IF Len(x) # Len(y) THEN Raise("ValueError")
  ELSE Return(<<DotValue(kernel, x, y)>>)

\* a nested list whose rows differ in length
Ragged(rows) == \E i, j \in 1..Len(rows) : Len(rows[i]) # Len(rows[j])

\* A ragged nested list never becomes a two-dimensional array: np.array
\* raises ValueError, or (older numpy) builds a one-dimensional array of
\* lists on which the product with a float vector raises ValueError when
\* the lengths differ and TypeError otherwise.
RaggedErrors(rows, wv) ==
  {"ValueError"} \cup (IF Len(rows) = Len(wv) THEN {"TypeError"} ELSE {})

\* np.matmul(np.array(rows), np.array(wv)) / rows @ wv, rows a list of
\* one or more lists: one dot product per row, in row order
\* faulty products: the rows taken last to first, and the shapes not compared
NpMatmulReversed(kernel, rows, wv) ==
  IF Len(rows[1]) # Len(wv) THEN Raise("ValueError")
  ELSE Return([i \in 1..Len(rows) |->
                 DotValue(kernel, rows[Len(rows) + 1 - i], wv)])

NpMatmulTruncating(kernel, rows, wv) ==
  Return([i \in 1..Len(rows) |->
            LET n == Min(Len(rows[i]), Len(wv))
            IN  DotValue(kernel, SubSeq(rows[i], 1, n), SubSeq(wv, 1, n))])

NpMatmul(kernel, rows, wv) ==
  IF Len(rows[1]) # Len(wv) THEN Raise("ValueError")
  ELSE Return([i \in 1..Len(rows) |-> DotValue(kernel, rows[i], wv)])

\* what rows @ wv can do, over the numpy builds and BLAS kernels
MatmulOutcomes(rows, wv) ==
  IF Ragged(rows) THEN {Raise(e) : e \in RaggedErrors(rows, wv)}
  ELSE {NpMatmul(k, rows, wv) : k \in Kernels}

\* numpy prints an array's floats with at most DisplayPrecision digits after
\* the point: the value times 10^DisplayPrecision, rounded to an integer
DisplayPrecision == 8

NpDisplay(x) ==
  LET scaled == BMul(x.m, BFromNat(Pow10(DisplayPrecision)))
  IN  [s |-> x.s,
       m |-> IF x.t = "int" THEN scaled
             ELSE IF x.e >= 0 THEN BShl(scaled, x.e)
             ELSE BRoundShr(scaled, 0 - x.e)]

\* the row count written into cell 36
ReshapeRows == 10000

\* np.concatenate((matrix, column.reshape(ReshapeRows, 1)), axis=1)
\* the common dtype of the concatenated arrays: integers stay integers
\* only when both arrays are integer arrays
Promote(x, float) == IF float THEN ToFloat(x) ELSE x

TableAugment(matrix, column) ==
  IF Len(column) # ReshapeRows THEN Raise("ValueError")
  ELSE IF Len(matrix) # ReshapeRows THEN Raise("ValueError")
  ELSE LET float == ~ (AllInt(column) /\ \A i \in 1..Len(matrix) : AllInt(matrix[i]))
       IN  Return([i \in 1..Len(matrix) |->
                     [j \in 1..(Len(matrix[i]) + 1) |->
                        IF j <= Len(matrix[i]) THEN Promote(matrix[i][j], float)
                        ELSE Promote(column[i], float)]])

(***************************************************************************)
(* Text.  A string is a sequence of pieces (a number's characters one by   *)
(* one, a name as one piece), a line is a string without its newline.      *)
(***************************************************************************)
DigitChars == <<"0", "1", "2", "3", "4", "5", "6", "7", "8", "9">>

RECURSIVE BDigits(_)
BDigits(m) ==
  IF m = <<>> THEN <<>>
  ELSE LET d == BDivSmall(m, 10) IN Append(BDigits(d.q), DigitChars[d.r + 1])

RECURSIVE PadLeft(_, _)
PadLeft(ds, n) == IF Len(ds) >= n THEN ds ELSE PadLeft(<<"0">> \o ds, n)

\* a faulty '%.<prec>f': the digits past the precision cut off
FormatTruncated(x, prec) ==
  LET f  == ToFloat(x)
      sc == BMul(f.m, BFromNat(Pow10(prec)))
      ds == PadLeft(BDigits(IF f.e >= 0 THEN BShl(sc, f.e) ELSE BShr(sc, 0 - f.e)),
                    prec + 1)
  IN  (IF f.s = 1 THEN <<"-">> ELSE <<>>)
        \o SubSeq(ds, 1, Len(ds) - prec)
        \o (IF prec = 0 THEN <<>> ELSE <<".">>)
        \o SubSeq(ds, Len(ds) - prec + 1, Len(ds))

\* '%.<prec>f' % x: the exact value rounded to prec decimals, ties to even
FormatFixed(x, prec) ==
  LET f  == ToFloat(x)
      sc == BMul(f.m, BFromNat(Pow10(prec)))
      ds == PadLeft(BDigits(IF f.e >= 0 THEN BShl(sc, f.e) ELSE BRoundShr(sc, 0 - f.e)),
                    prec + 1)
  IN  (IF f.s = 1 THEN <<"-">> ELSE <<>>)
        \o SubSeq(ds, 1, Len(ds) - prec)
        \o (IF prec = 0 THEN <<>> ELSE <<".">>)
        \o SubSeq(ds, Len(ds) - prec + 1, Len(ds))

\* delimiter.join(fields)
RECURSIVE Join(_, _)
Join(fields, sep) ==
  IF fields = <<>> THEN <<>>
  ELSE IF Len(fields) = 1 THEN fields[1]
  ELSE fields[1] \o <<sep>> \o Join(Tail(fields), sep)

\* line.split(delimiter)
RECURSIVE SplitFrom(_, _, _, _)
SplitFrom(line, sep, i, field) ==
  IF i > Len(line) THEN <<field>>
  ELSE IF line[i] = sep THEN <<field>> \o SplitFrom(line, sep, i + 1, <<>>)
  ELSE SplitFrom(line, sep, i + 1, Append(field, line[i]))

Split(line, sep) == SplitFrom(line, sep, 1, <<>>)

\* the decimal s * mag / 10^k as the nearest float64
DecimalToFloat(s, mag, k) ==
  LET d == BDivSmall(BShl(mag, 75), Pow10(k))
      m == BAdd(BShl(d.q, 1), IF d.r = 0 THEN <<>> ELSE <<1>>)
  IN  FRound(s, m, -76)

DigitValue(c) == CHOOSE d \in 0..9 : DigitChars[d + 1] = c

RECURSIVE DigitsToNat(_, _)
DigitsToNat(ds, acc) ==
  IF ds = <<>> THEN acc
  ELSE DigitsToNat(Tail(ds), BAdd(BMulSmall(acc, 10), BFromNat(DigitValue(ds[1]))))

\* float(field) for a field of the form [-]digits[.digits]
ParseFloat(field) ==
  LET neg  == field # <<>> /\ field[1] = "-"
      body == IF neg THEN Tail(field) ELSE field
      ds   == SelectSeq(body, LAMBDA c : c # ".")
      dots == {i \in 1..Len(body) : body[i] = "."}
      k    == IF dots = {} THEN 0 ELSE Len(body) - (CHOOSE i \in dots : TRUE)
  IN  DecimalToFloat(IF neg THEN 1 ELSE 0, DigitsToNat(ds, <<>>), k)

(***************************************************************************)
(* The table of climate.txt has ReshapeRows lines.  A text file and the     *)
(* array loaded from it are held run-length encoded: a sequence of blocks,  *)
(* each a line (a row, an entry) and the number n of consecutive lines that *)
(* hold it.  genfromtxt, @, reshape, concatenate and savetxt work line by   *)
(* line, so on every line of a block alike.  A one-dimensional array has    *)
(* blocks [n, x], a two-dimensional one blocks [n, row].                    *)
(***************************************************************************)
RECURSIVE RowCount(_)
RowCount(t) == IF t = <<>> THEN 0 ELSE t[1].n + RowCount(Tail(t))

\* the blocks left after k lines (rows)
DropRows(t, k) ==
  IF t[1].n = k THEN Tail(t) ELSE <<[t[1] EXCEPT !.n = @ - k]>> \o Tail(t)

RECURSIVE SkipLines(_, _)
SkipLines(file, k) ==
  IF k = 0 \/ file = <<>> THEN file
  ELSE LET j == Min(k, file[1].n) IN SkipLines(DropRows(file, j), k - j)

\* np.genfromtxt(file, delimiter=..., skip_header=...)
GenFromTxt(file, delimiter, skip) ==
  LET body == SkipLines(file, skip)
      t == [i \in 1..Len(body) |->
              [n   |-> body[i].n,
               row |-> LET fs == Split(body[i].line, delimiter)
                       IN  [j \in 1..Len(fs) |-> ParseFloat(fs[j])]]]
  IN  IF file = <<>> THEN Raise("FileNotFoundError")
      ELSE IF \E i, j \in 1..Len(t) : Len(t[i].row) # Len(t[j].row)
        THEN Raise("ValueError")
      ELSE Return(t)

\* table @ wv
MatmulLoaded(kernel, t, wv) ==
  IF Len(t[1].row) # Len(wv) THEN Raise("ValueError")
  ELSE Return([i \in 1..Len(t) |-> [n |-> t[i].n, x |-> DotValue(kernel, t[i].row, wv)]])

\* vec.reshape(rows, 1): a new array, vec itself keeps its shape
Reshape(vec, rows) ==
  IF RowCount(vec) # rows THEN Raise("ValueError")
  ELSE Return([i \in 1..Len(vec) |-> [n |-> vec[i].n, row |-> <<vec[i].x>>]])

RECURSIVE ZipBlocks(_, _)
ZipBlocks(a, b) ==
  IF a = <<>> \/ b = <<>> THEN <<>>
  ELSE LET k == Min(a[1].n, b[1].n)
       IN  <<[n |-> k, row |-> a[1].row \o b[1].row]>>
             \o ZipBlocks(DropRows(a, k), DropRows(b, k))

\* np.concatenate((a, b), axis=1)
ConcatenateColumns(a, b) ==
  IF RowCount(a) # RowCount(b) THEN Raise("ValueError") ELSE Return(ZipBlocks(a, b))

\* np.concatenate((matrix, column.reshape(ReshapeRows, 1)), axis=1) on the
\* loaded table; a number in place of the column has one entry to reshape
TableAugmentLoaded(matrix, column) ==
  LET c == IF column.kind = "array" THEN Reshape(column.v, ReshapeRows)
           ELSE Raise("ValueError")
  IN  IF c.ok THEN ConcatenateColumns(matrix, c.v) ELSE c

\* the arguments of np.savetxt in cell 38
SavePrecision == 2

Delimiter == ","

HeaderText == <<"temperature", ",", "rainfall", ",", "humidity", ",", "yeild_apples">>

Comments == <<>>

\* a faulty savetxt: the header behind the default comment prefix
SaveTxtCommented(t, prec, delimiter, header, comments) ==
  <<[n |-> 1, line |-> <<"# ">> \o header]>>
    \o [i \in 1..Len(t) |->
          [n    |-> t[i].n,
           line |-> Join([j \in 1..Len(t[i].row) |-> FormatFixed(t[i].row[j], prec)],
                         delimiter)]]

\* np.savetxt(file, t, fmt='%.<prec>f', delimiter=..., header=..., comments=...):
\* the lines written
SaveTxt(t, prec, delimiter, header, comments) ==
  <<[n |-> 1, line |-> comments \o header]>>
    \o [i \in 1..Len(t) |->
          [n    |-> t[i].n,
           line |-> Join([j \in 1..Len(t[i].row) |-> FormatFixed(t[i].row[j], prec)],
                         delimiter)]]

\* skip_header=True
SkipHeader == 1

(***************************************************************************)
(* The notebook's data (cells 1, 5, 6, 21, 31, 62) and the inputs of the   *)
(* runs that are checked.                                                  *)
(***************************************************************************)
IntList(l) == [i \in 1..Len(l) |-> PyInt(l[i])]

w1 == FloatLit(3, 1)
w2 == FloatLit(2, 1)
w3 == FloatLit(5, 1)

kanto  == IntList(<<73, 67, 43>>)
johto  == IntList(<<91, 88, 64>>)
hoenn  == IntList(<<87, 134, 58>>)
sinnoh == IntList(<<102, 43, 37>>)
unova  == IntList(<<69, 96, 70>>)

SampleWeights == <<w1, w2, w3>>

SampleMatrix == <<kanto, johto, hoenn, sinnoh, unova>>

\* the first row of the downloaded table, which np.genfromtxt reads as floats
LoadedRow == <<FloatLit(25, 0), FloatLit(76, 0), FloatLit(99, 0)>>

MaxLen == 2
MaxRows == 2

SeqsUpTo(S, n) == UNION {[1..m -> S] : m \in 0..n}

\* list elements: ints (one whose square does not fit IntBits bits) and a float
Values == {PyInt(0), PyInt(-3), PyInt(46341), FloatLit(1, 1)}

Lists == SeqsUpTo(Values, MaxLen)

RowPool == {kanto, johto, sinnoh, LoadedRow, IntList(<<73, 67>>)}

Matrices ==
  (SeqsUpTo(RowPool, MaxRows) \ {<<>>}) \cup {SampleMatrix, <<kanto, johto, kanto>>}

WeightPool ==
  {SampleWeights, <<w1, w2>>, <<FloatLit(1, 1), FloatLit(2, 1), FloatLit(3, 1)>>}

\* climate.txt: its header, lines it can hold (the first rows cell 31
\* displays, a line with a sign and decimals, a line one field short), and
\* files of up to MaxBlocks runs of equal lines, with ReshapeRows lines or
\* with as many as the sample table has rows
InputHeader == <<"temperature", ",", "rainfall", ",", "humidity">>

NatChars(n) == IF n = 0 THEN <<"0">> ELSE BDigits(BFromNat(n))

IntLine(l) == Join([i \in 1..Len(l) |-> NatChars(l[i])], Delimiter)

LinePool ==
  {IntLine(<<25, 76, 99>>), IntLine(<<39, 65, 70>>), IntLine(<<59, 45, 77>>),
   <<"-", "1", "2", ".", "5", ",", "0", ".", "0", "4", ",", "7">>,
   IntLine(<<73, 67>>)}

MaxBlocks == 2

RowCounts == {ReshapeRows, Len(SampleMatrix)}

\* the i-th of m runs is i lines long, the last as long as it takes
RunLength(i, m, total) == IF i < m THEN i ELSE total - ((m - 1) * m) \div 2

InputFiles ==
  {<<[n |-> 1, line |-> InputHeader]>>
     \o [i \in 1..Len(ls) |-> [n |-> RunLength(i, Len(ls), total), line |-> ls[i]]] :
   ls \in SeqsUpTo(LinePool, MaxBlocks) \ {<<>>}, total \in RowCounts}

(***************************************************************************)
(* The state of a run of the notebook.                                     *)
(***************************************************************************)
VARIABLES
  arr1, arr2,     \* the two lists of cell 18 (cell 62: the arguments of Dot)
  climateData,    \* the climate table, a list of rows
  weights,        \* the weight vector
  pc,             \* the cell the run has come to
  turn,           \* which call of that cell is next
  frame,          \* the running loop: <<>>, or its arguments, position and result
  log,            \* the calls of CropYield and Dot that returned, in order
  loopOut,        \* what cell 19 displays: <<>> until it has run
  dotOut,         \* what cell 20 prints: <<>> until it has run
  raised,         \* the exception each cell raised, "none" if none
  CropYield,      \* what the global name CropYield is bound to
  ClimateRes,     \* the augmented table of cell 36: <<>> until it is built
  files,          \* the text files by name: <<>> where there is none
  reread          \* the table read back from climate_results.txt: <<>> or <<table>>

vars == <<arr1, arr2, climateData, weights, pc, turn, frame, log, loopOut,
          dotOut, raised, CropYield, ClimateRes, files, reread>>

Function == [kind |-> "function", v |-> <<>>]

NoneRaised ==
  [cell9 |-> "none", cell16 |-> "none", cell20 |-> "none", cell30 |-> "none",
   cell33 |-> "none", cell36 |-> "none", cell38 |-> "none", readback |-> "none"]

NoFiles == [climate |-> <<>>, results |-> <<>>]

InitRun ==
  /\ turn = 1
  /\ frame = <<>>
  /\ log = <<>>
  /\ loopOut = <<>>
  /\ dotOut = <<>>
  /\ raised = NoneRaised
  /\ CropYield = Function
  /\ ClimateRes = <<>>
  /\ files = NoFiles
  /\ reread = <<>>

\* a run of the cells on two lists: Dot both ways round, the loop, np.dot
InitVectors ==
  /\ arr1 \in Lists
  /\ arr2 \in Lists
  /\ climateData = <<>>
  /\ weights = <<>>
  /\ pc = "cell63"
  /\ InitRun

\* a run of the cells on a climate table: CropYield per region, the
\* matrix product, the augmented table
InitClimate ==
  /\ arr1 = <<>>
  /\ arr2 = <<>>
  /\ climateData \in Matrices
  /\ weights \in WeightPool
  /\ pc = "cell9"
  /\ InitRun

Init == InitVectors \/ InitClimate

(***************************************************************************)
(* CropYield(region, weights), Dot(arr1, arr2) and the loop of cell 19 are *)
(* the same statements: result = 0; for x, w in zip(a, b): result += x*w.  *)
(***************************************************************************)
\* a faulty call: the accumulator carried over from the call before
NewFrameShared(fn, a, b) ==
  [fn |-> fn, a |-> a, b |-> b, i |-> 0,
   result |-> IF log = <<>> THEN PyInt(0) ELSE log[Len(log)].ret]

NewFrame(fn, a, b) == [fn |-> fn, a |-> a, b |-> b, i |-> 0, result |-> PyInt(0)]

\* a faulty zip: it stops one pair early
ZipHasNextShort(f) == f.i + 1 < Len(f.a) /\ f.i + 1 < Len(f.b)

\* zip yields a pair while both lists have one left
ZipHasNext(f) == f.i < Len(f.a) /\ f.i < Len(f.b)

\* result += x*w
\* faulty loop bodies: the product assigned instead of accumulated, the element
\* multiplied by itself, and the weight left out
LoopBodyOverwrite(result, x, w) == PyMul(x, w)

LoopBodySquare(result, x, w) == PyAdd(result, PyMul(x, x))

LoopBodyNoWeight(result, x, w) == PyAdd(result, x)

LoopBody(result, x, w) == PyAdd(result, PyMul(x, w))

CropYieldCall ==
  /\ pc = "cell9"
  /\ frame = <<>>
  /\ CropYield.kind = "function"
  /\ frame' = <<NewFrame("CropYield", climateData[turn], weights)>>
  /\ UNCHANGED <<files, reread, arr1, arr2, climateData, weights, pc, turn, log, loopOut,
                 dotOut, raised, CropYield, ClimateRes>>

DotCall ==
  /\ pc = "cell63"
  /\ frame = <<>>
  /\ frame' = <<IF turn = 1 THEN NewFrame("Dot", arr1, arr2)
                ELSE NewFrame("Dot", arr2, arr1)>>
  /\ UNCHANGED <<files, reread, arr1, arr2, climateData, weights, pc, turn, log, loopOut,
                 dotOut, raised, CropYield, ClimateRes>>

Cell19Start ==
  /\ pc = "cell19"
  /\ frame = <<>>
  /\ frame' = <<NewFrame("cell19", arr1, arr2)>>
  /\ UNCHANGED <<files, reread, arr1, arr2, climateData, weights, pc, turn, log, loopOut,
                 dotOut, raised, CropYield, ClimateRes>>

LoopIter ==
  /\ frame # <<>>
  /\ ZipHasNext(frame[1])
  /\ frame' = <<[frame[1] EXCEPT
                   !.result = LoopBody(@, frame[1].a[frame[1].i + 1],
                                          frame[1].b[frame[1].i + 1]),
                   !.i = @ + 1]>>
  /\ UNCHANGED <<files, reread, arr1, arr2, climateData, weights, pc, turn, log, loopOut,
                 dotOut, raised, CropYield, ClimateRes>>

Returned(f) == [a |-> f.a, b |-> f.b, ret |-> f.result]

CropYieldReturn ==
  /\ frame # <<>>
  /\ frame[1].fn = "CropYield"
  /\ ~ ZipHasNext(frame[1])
  /\ log' = Append(log, Returned(frame[1]))
  /\ frame' = <<>>
  /\ turn' = IF turn = Len(climateData) THEN 1 ELSE turn + 1
  /\ pc' = IF turn = Len(climateData) THEN "cell16" ELSE "cell9"
  /\ UNCHANGED <<files, reread, arr1, arr2, climateData, weights, loopOut, dotOut, raised,
                 CropYield, ClimateRes>>

DotReturn ==
  /\ frame # <<>>
  /\ frame[1].fn = "Dot"
  /\ ~ ZipHasNext(frame[1])
  /\ log' = Append(log, Returned(frame[1]))
  /\ frame' = <<>>
  /\ turn' = IF turn = 2 THEN 1 ELSE turn + 1
  /\ pc' = IF turn = 2 THEN "cell19" ELSE "cell63"
  /\ UNCHANGED <<files, reread, arr1, arr2, climateData, weights, loopOut, dotOut, raised,
                 CropYield, ClimateRes>>

Cell19End ==
  /\ frame # <<>>
  /\ frame[1].fn = "cell19"
  /\ ~ ZipHasNext(frame[1])
  /\ loopOut' = <<frame[1].result>>
  /\ frame' = <<>>
  /\ pc' = "cell20"
  /\ UNCHANGED <<files, reread, arr1, arr2, climateData, weights, turn, log, dotOut, raised,
                 CropYield, ClimateRes>>

\* print(np.dot(arr1_np, arr2_np))
Cell20 ==
  /\ pc = "cell20"
  /\ \E k \in Kernels :
       LET r == NpDot(k, arr1, arr2)
       IN  /\ dotOut' = r.v
           /\ raised' = [raised EXCEPT !.cell20 = r.err]
  /\ pc' = "end"
  /\ UNCHANGED <<files, reread, arr1, arr2, climateData, weights, turn, frame, log, loopOut,
                 CropYield, ClimateRes>>

\* a faulty cell 16: the number bound to another name
BindElsewhere(old, r) == old

\* what the name CropYield is bound to after CropYield = <r>: the value, or
\* what it was bound to when the right-hand side raises
BindNumber(old, r) == IF r.ok THEN [kind |-> "number", v |-> r.v] ELSE old

\* CropYield = np.dot(kanto, weights), kanto the first region of the table
Cell16 ==
  /\ pc = "cell16"
  /\ \E k \in Kernels :
       LET r == NpDot(k, climateData[1], weights)
       IN  /\ CropYield' = BindNumber(CropYield, r)
           /\ raised' = [raised EXCEPT !.cell16 = r.err]
  /\ pc' = "cell33"
  /\ UNCHANGED <<files, reread, arr1, arr2, climateData, weights, turn, frame, log, loopOut,
                 dotOut, ClimateRes>>

\* calling what the name CropYield is bound to
CallError(binding) == IF binding.kind = "function" THEN "none" ELSE "TypeError"

\* cell 9 run again once the name CropYield is no longer the function (run
\* while it still is, it is the call of CropYieldCall)
RerunCell9 ==
  /\ pc \in {"cell33", "cell36", "end"}
  /\ climateData # <<>>
  /\ CropYield.kind # "function"
  /\ raised.cell9 = "none"
  /\ raised' = [raised EXCEPT !.cell9 = CallError(CropYield)]
  /\ UNCHANGED <<files, reread, arr1, arr2, climateData, weights, pc, turn, frame, log, loopOut,
                 dotOut, CropYield, ClimateRes>>

\* CropYield = climateData @ weights: the name is rebound unless the
\* product raises
Cell33 ==
  /\ pc = "cell33"
  /\ \E r \in MatmulOutcomes(climateData, weights) :
       /\ CropYield' = IF r.ok THEN [kind |-> "array", v |-> r.v] ELSE CropYield
       /\ raised' = [raised EXCEPT !.cell33 = r.err]
  /\ pc' = "cell36"
  /\ UNCHANGED <<files, reread, arr1, arr2, climateData, weights, turn, frame, log, loopOut,
                 dotOut, ClimateRes>>

\* ClimateRes = np.concatenate((climateData, CropYield.reshape(10000,1)), axis=1)
Cell36 ==
  /\ pc = "cell36"
  /\ LET r == IF CropYield.kind \in {"array", "number"}
                THEN TableAugment(climateData, CropYield.v)
              ELSE Raise("AttributeError")
     IN  /\ ClimateRes' = r.v
         /\ raised' = [raised EXCEPT !.cell36 = r.err]
  /\ pc' = "end"
  /\ UNCHANGED <<files, reread, arr1, arr2, climateData, weights, turn, frame, log, loopOut,
                 dotOut, CropYield>>

(***************************************************************************)
(* Cells 30 to 38 on the loaded table.                                     *)
(***************************************************************************)
\* a run of cells 30 to 38 on a downloaded climate.txt, and the written file
\* read back; cell 16 has bound CropYield to a number by then
InitTable ==
  /\ files \in {[climate |-> f, results |-> <<>>] : f \in InputFiles}
  /\ weights \in WeightPool
  /\ climateData = <<>>
  /\ CropYield = BindNumber(Function, NpDot("sequential", kanto, SampleWeights))
  /\ ClimateRes = <<>>
  /\ reread = <<>>
  /\ pc = "cell30"
  /\ arr1 = <<>>
  /\ arr2 = <<>>
  /\ turn = 1
  /\ frame = <<>>
  /\ log = <<>>
  /\ loopOut = <<>>
  /\ dotOut = <<>>
  /\ raised = NoneRaised

\* climateData = np.genfromtxt('climate.txt', delimiter=',', skip_header=True)
Cell30 ==
  /\ pc = "cell30"
  /\ LET r == GenFromTxt(files.climate, Delimiter, SkipHeader)
     IN  /\ climateData' = r.v
         /\ raised' = [raised EXCEPT !.cell30 = r.err]
         /\ pc' = IF r.ok THEN "cell33" ELSE "end"
  /\ UNCHANGED <<files, reread, arr1, arr2, weights, turn, frame, log, loopOut,
                 dotOut, CropYield, ClimateRes>>

\* CropYield = climateData @ weights
Cell33Loaded ==
  /\ pc = "cell33"
  /\ \E k \in Kernels :
       LET r == MatmulLoaded(k, climateData, weights)
       IN  /\ CropYield' = IF r.ok THEN [kind |-> "array", v |-> r.v] ELSE CropYield
           /\ raised' = [raised EXCEPT !.cell33 = r.err]
  /\ pc' = "cell36"
  /\ UNCHANGED <<files, reread, arr1, arr2, climateData, weights, turn, frame, log,
                 loopOut, dotOut, ClimateRes>>

\* a faulty cell 36: CropYield.shape = (10000, 1) before concatenating
Cell36InPlace ==
  /\ pc = "cell36"
  /\ LET r == TableAugmentLoaded(climateData, CropYield)
     IN  /\ ClimateRes' = r.v
         /\ raised' = [raised EXCEPT !.cell36 = r.err]
         /\ CropYield' = IF r.ok THEN [CropYield EXCEPT !.v = Reshape(@, ReshapeRows).v]
                          ELSE CropYield
  /\ pc' = "cell38"
  /\ UNCHANGED <<files, reread, arr1, arr2, climateData, weights, turn, frame, log,
                 loopOut, dotOut>>

\* ClimateRes = np.concatenate((climateData, CropYield.reshape(10000,1)), axis=1)
Cell36Loaded ==
  /\ pc = "cell36"
  /\ LET r == TableAugmentLoaded(climateData, CropYield)
     IN  /\ ClimateRes' = r.v
         /\ raised' = [raised EXCEPT !.cell36 = r.err]
  /\ pc' = "cell38"
  /\ UNCHANGED <<files, reread, arr1, arr2, climateData, weights, turn, frame, log,
                 loopOut, dotOut, CropYield>>

\* np.savetxt('climate_results.txt', ClimateRes, fmt='%.2f', delimiter=',',
\*            header='temperature,rainfall,humidity,yeild_apples', comments='')
\* ClimateRes is not defined when cell 36 raised
Cell38 ==
  /\ pc = "cell38"
  /\ IF raised.cell36 = "none"
       THEN /\ files' = [files EXCEPT !.results =
                           SaveTxt(ClimateRes, SavePrecision, Delimiter, HeaderText,
                                   Comments)]
            /\ raised' = raised
       ELSE /\ files' = files
            /\ raised' = [raised EXCEPT !.cell38 = "NameError"]
  /\ pc' = "readback"
  /\ UNCHANGED <<reread, arr1, arr2, climateData, weights, turn, frame, log,
                 loopOut, dotOut, CropYield, ClimateRes>>

\* the written file read with the reader of cell 30:
\* np.genfromtxt('climate_results.txt', delimiter=',', skip_header=True)
ReadBack ==
  /\ pc = "readback"
  /\ LET r == GenFromTxt(files.results, Delimiter, SkipHeader)
     IN  /\ reread' = IF r.ok THEN <<r.v>> ELSE <<>>
         /\ raised' = [raised EXCEPT !.readback = r.err]
  /\ pc' = "end"
  /\ UNCHANGED <<files, arr1, arr2, climateData, weights, turn, frame, log,
                 loopOut, dotOut, CropYield, ClimateRes>>

Next ==
  \/ CropYieldCall
  \/ DotCall
  \/ Cell19Start
  \/ LoopIter
  \/ CropYieldReturn
  \/ DotReturn
  \/ Cell19End
  \/ Cell20
  \/ Cell16
  \/ RerunCell9
  \/ Cell33
  \/ Cell36

Spec == Init /\ [][Next]_vars

NextTable ==
  \/ Cell30
  \/ Cell33Loaded
  \/ Cell36Loaded
  \/ Cell38
  \/ ReadBack

SpecTable == InitTable /\ [][NextTable]_vars

\* ---------------------------------------------------------------------
\* Properties
\* ---------------------------------------------------------------------

\* the calls of CropYield and Dot that have returned
Calls == 1..Len(log)

SameLength(h) == Len(h.a) = Len(h.b)

\* a[1]*b[1] + ... + a[n]*b[n], summed from the first term, and b[n]*a[n] +
\* ... + b[1]*a[1], summed from the last
RECURSIVE SumProducts(_, _, _)
SumProducts(a, b, n) ==
  IF n = 0 THEN PyInt(0)
  ELSE PyAdd(SumProducts(a, b, n - 1), PyMul(a[n], b[n]))

\* the same sum and the sum of the products' magnitudes, as real numbers
RECURSIVE ExactSum(_, _, _)
ExactSum(a, b, n) ==
  IF n = 0 THEN Dy(PyInt(0))
  ELSE DAdd(ExactSum(a, b, n - 1), DMul(Dy(a[n]), Dy(b[n])))

DAbs(d) == [d EXCEPT !.s = 0]

RECURSIVE AbsSum(_, _, _)
AbsSum(a, b, n) ==
  IF n = 0 THEN Dy(PyInt(0))
  ELSE DAdd(AbsSum(a, b, n - 1), DAbs(DMul(Dy(a[n]), Dy(b[n]))))

\* the rounding a sum of n float64 products can accumulate: n * 2^-52 times
\* the sum of their magnitudes
RoundingBound(a, b) ==
  DMul(AbsSum(a, b, Len(a)), [s |-> 0, m |-> BFromNat(Len(a)), e |-> 0 - (MantBits - 1)])

Distance(x, y) == DAbs(DAdd(x, DNeg(y)))

\* x is the sum of the products of a and b up to rounding
NearSum(x, a, b) ==
  DCmp(Distance(Dy(x), ExactSum(a, b, Len(a))), RoundingBound(a, b)) <= 0

C2_MismatchNeverReturns == \A k \in Calls : SameLength(log[k])

\* C7: the calls on (a, b) and on (b, a), a and b of the same length, return
\* the same number
C7_Commutative ==
  \A j, k \in Calls :
    (SameLength(log[j]) /\ log[j].a = log[k].b /\ log[j].b = log[k].a) =>
      PyEq(log[j].ret, log[k].ret)

C7_Witness ==
  \E j, k \in Calls :
    /\ SameLength(log[j]) /\ Len(log[j].a) >= 2
    /\ log[j].a = log[k].b /\ log[j].b = log[k].a /\ log[j].a # log[j].b
    /\ log[j].ret.m # <<>>

AllZero(l) == \A i \in 1..Len(l) : l[i].m = <<>>

\* C8: a call whose second sequence holds only zeros, and is as long as the
\* first, returns 0
C8_ZeroVector ==
  \A k \in Calls :
    (SameLength(log[k]) /\ AllZero(log[k].b)) => PyEq(log[k].ret, PyInt(0))

C8_Witness ==
  \E k \in Calls :
    /\ SameLength(log[k]) /\ Len(log[k].a) >= 2 /\ AllZero(log[k].b)
    /\ \E i \in 1..Len(log[k].a) : log[k].a[i].t = "float"
    /\ \E i \in 1..Len(log[k].a) : log[k].a[i].t = "int" /\ log[k].a[i].m # <<>>

\* x and y are the same sum of products up to the rounding of each
NearEachOther(x, y, a, b) ==
  DCmp(Distance(Dy(x), Dy(y)), DAdd(RoundingBound(a, b), RoundingBound(a, b))) <= 0

\* C3: on two vectors of the same length the timed loop and np.dot print
\* numerically equal numbers
C3_LoopEqualsBulk ==
  (pc = "end" /\ loopOut # <<>> /\ Len(arr1) = Len(arr2)) =>
    /\ dotOut # <<>>
    /\ NearEachOther(loopOut[1], dotOut[1], arr1, arr2)

AfterCell33 == pc \in {"cell36", "end"} /\ climateData # <<>>

Rectangular(rows, n) == \A i \in 1..Len(rows) : Len(rows[i]) = n

\* C4 as stated: on a rectangular matrix whose rows are as long as the weight
\* vector, the product has one entry per row, equal to what the loop returns
\* on that row
C4_BatchEqualsLoop ==
  (AfterCell33 /\ Rectangular(climateData, Len(weights))) =>
    /\ CropYield.kind = "array"
    /\ Len(CropYield.v) = Len(climateData)
    /\ \A i \in 1..Len(climateData) :
         log[i].a = climateData[i] /\ PyEq(CropYield.v[i], log[i].ret)

\* C4: on a rectangular matrix whose rows are as long as the float64 weight
\* vector, the product has one entry per row, in row order, and entry i is the
\* sum of the products of row i and the weights up to float64 rounding, as is
\* what the loop returns on row i
C4_BatchNearLoop ==
  (AfterCell33 /\ Rectangular(climateData, Len(weights))) =>
    /\ CropYield.kind = "array"
    /\ Len(CropYield.v) = Len(climateData)
    /\ \A i \in 1..Len(climateData) :
         /\ log[i].a = climateData[i] /\ log[i].b = weights
         /\ CropYield.v[i].t = "float"
         /\ NearSum(CropYield.v[i], climateData[i], weights)
         /\ NearEachOther(CropYield.v[i], log[i].ret, climateData[i], weights)

C4_Witness ==
  /\ AfterCell33 /\ CropYield.kind = "array" /\ Len(climateData) >= 2
  /\ climateData[1] # climateData[2]
  /\ \E i \in 1..Len(climateData) : ~PyEq(CropYield.v[i], log[i].ret)

\* C5: a product of a ragged matrix, or of a matrix with a row whose length
\* is not the weight vector's, raises and leaves no result vector; when the
\* matrix is rectangular the error is numpy's ValueError
C5_ShapeMismatchRaises ==
  (AfterCell33 /\ ~Rectangular(climateData, Len(weights))) =>
    /\ raised.cell33 \in {"ValueError", "TypeError"}
    /\ CropYield.kind # "array"
    /\ ~Ragged(climateData) => raised.cell33 = "ValueError"

C5_Witness ==
  /\ AfterCell33 /\ Ragged(climateData) /\ raised.cell33 = "ValueError"
  /\ \E i \in 1..Len(climateData) : Len(climateData[i]) = Len(weights)

\* the yields the specification documents for the five sample regions, in
\* tenths
DocumentedTenths == <<568, 769, 819, 577, 749>>

Documented(i) == FloatLit(DocumentedTenths[i], 1)

\* the digits numpy displays for a documented yield
DocumentedDisplay(i) ==
  [s |-> 0, m |-> BMul(BFromNat(DocumentedTenths[i]), BFromNat(Pow10(DisplayPrecision - 1)))]

OnSample == AfterCell33 /\ climateData = SampleMatrix /\ weights = SampleWeights

\* C6 as stated: on the sample matrix and weights the loop and the product
\* both give 56.8, 76.9, 81.9, 57.7, 74.9
C6_SampleExact ==
  OnSample =>
    /\ CropYield.kind = "array"
    /\ \A i \in 1..Len(SampleMatrix) :
         /\ PyEq(log[i].ret, Documented(i))
         /\ PyEq(CropYield.v[i], Documented(i))

\* C6: on the sample matrix and weights the loop and the product both give, in
\* row order, numbers that display as 56.8, 76.9, 81.9, 57.7, 74.9 at numpy's
\* precision; the loop's first and last are exactly 56.8 and 74.9, the values
\* the notebook prints
C6_SampleDisplayed ==
  OnSample =>
    /\ CropYield.kind = "array"
    /\ Len(CropYield.v) = Len(SampleMatrix)
    /\ \A i \in 1..Len(SampleMatrix) :
         /\ NpDisplay(log[i].ret) = DocumentedDisplay(i)
         /\ NpDisplay(CropYield.v[i]) = DocumentedDisplay(i)
    /\ PyEq(log[1].ret, Documented(1))
    /\ PyEq(log[Len(SampleMatrix)].ret, Documented(Len(SampleMatrix)))

C6_Witness ==
  /\ OnSample /\ CropYield.kind = "array"
  /\ \E i \in 1..Len(SampleMatrix) : ~PyEq(log[i].ret, Documented(i))

\* C9: the augmented table has the matrix's rows, each followed by the
\* column's entry for that row
C9_AppendsColumn ==
  (pc = "end" /\ CropYield.kind = "array" /\ Len(CropYield.v) = Len(climateData)) =>
    /\ raised.cell36 = "none"
    /\ Len(ClimateRes) = Len(climateData)
    /\ \A i \in 1..Len(climateData) :
         /\ Len(ClimateRes[i]) = Len(climateData[i]) + 1
         /\ \A j \in 1..Len(climateData[i]) : PyEq(ClimateRes[i][j], climateData[i][j])
         /\ PyEq(ClimateRes[i][Len(climateData[i]) + 1], CropYield.v[i])

\* C10: augmenting fails exactly when the column's length is not the
\* matrix's row count, whatever that count is
C10_FailsOnlyOnMismatch ==
  (pc = "end" /\ CropYield.kind = "array") =>
    (raised.cell36 # "none" <=> Len(CropYield.v) # Len(climateData))

\* the variables the notebook's cells can name
programVars == <<arr1, arr2, climateData, weights, CropYield, ClimateRes>>

InCall == frame # <<>> /\ frame[1].fn \in {"CropYield", "Dot"}

\* a step of a call: its start, an iteration or its return
CallStep == InCall \/ (frame' # <<>> /\ frame'[1].fn \in {"CropYield", "Dot"})

\* C14: a call of CropYield or Dot changes neither its arguments nor any
\* variable of the program, starts its accumulator at 0, and any two calls on
\* equal arguments return the same number whatever was called in between
C14_Pure ==
  /\ [](\A j, k \in Calls :
          (log[j].a = log[k].a /\ log[j].b = log[k].b) => log[j].ret = log[k].ret)
  /\ [][CallStep =>
          /\ UNCHANGED programVars
          /\ UNCHANGED <<loopOut, dotOut, raised>>
          /\ (frame = <<>>) => frame'[1].result = PyInt(0)
          /\ (frame # <<>> /\ frame' # <<>>) =>
               frame'[1].a = frame[1].a /\ frame'[1].b = frame[1].b
          /\ (frame' = <<>>) =>
               log'[Len(log')].a = frame[1].a /\ log'[Len(log')].b = frame[1].b]_vars

C14_Witness ==
  \E j, k \in Calls :
    /\ j + 1 < k
    /\ log[j].a = log[k].a /\ log[j].b = log[k].b
    /\ log[j + 1].a # log[j].a
    /\ log[k].ret.m # <<>>

\* C15: a call on sequences of different lengths returns, after as many
\* iterations as the shorter is long, the sum of the products over the
\* shorter one's indices
C15_ZipTruncates ==
  /\ [](\A k \in Calls :
          ~SameLength(log[k]) =>
            log[k].ret = SumProducts(log[k].a, log[k].b,
                                     Min(Len(log[k].a), Len(log[k].b))))
  /\ [][(InCall /\ frame' = <<>>) =>
          frame[1].i = Min(Len(frame[1].a), Len(frame[1].b))]_vars

C15_Witness ==
  \E k \in Calls :
    /\ Len(log[k].a) > Len(log[k].b) /\ Len(log[k].b) >= 1
    /\ log[k].a[Len(log[k].a)].m # <<>>
    /\ log[k].ret.m # <<>>

\* the benchmark of cells 18 to 20: a = 0 .. N-1, b = N .. 2N-1, the sum the
\* loop displays and the number np.dot prints
BenchmarkN == BFromNat(1000000)

BenchmarkLoop ==
  [t |-> "int", s |-> 0,
   m |-> BAdd(BMul(BFromNat(833332333), BFromNat(1000000000)), BFromNat(333500000))]

BenchmarkDot == PyInt(-1942957984)

\* sum of i * (N + i) over i < N: N * N(N-1)/2 + (N-1)N(2N-1)/6
BenchmarkExact ==
  LET n   == BenchmarkN
      n1  == BSub(n, <<1>>)
      tri == BDivSmall(BMul(n, n1), 2).q
      sq  == BDivSmall(BMul(BMul(n1, n), BSub(BMulSmall(n, 2), <<1>>)), 6).q
  IN  [t |-> "int", s |-> 0, m |-> BAdd(BMul(n, tri), sq)]

\* x lies in the signed range of IntBits bits
InIntRange(x) ==
  IF x.s = 1 THEN BCmp(x.m, BShl(<<1>>, IntBits - 1)) <= 0
  ELSE BCmp(x.m, BShl(<<1>>, IntBits - 1)) < 0

\* x - y is a multiple of 2^IntBits
Congruent(x, y) ==
  LET d == DAdd(Dy(x), DNeg(Dy(y)))
  IN  BShl(BShr(d.m, IntBits), IntBits) = d.m

\* C16: on integer arrays of the same length np.dot prints the loop's exact
\* sum reduced modulo 2^IntBits into the signed range, so the two agree only
\* when the sum is in that range; on the benchmark the exact sum is
\* 833332333333500000 and its reduction is -1942957984
C16_DotWraps ==
  /\ BenchmarkExact = BenchmarkLoop
  /\ InIntRange(BenchmarkDot) /\ Congruent(BenchmarkLoop, BenchmarkDot)
  /\ WrapInt(BenchmarkLoop) = BenchmarkDot
  /\ (pc = "end" /\ loopOut # <<>> /\ Len(arr1) = Len(arr2)
        /\ AllInt(arr1) /\ AllInt(arr2)) =>
       /\ dotOut # <<>>
       /\ InIntRange(dotOut[1]) /\ Congruent(loopOut[1], dotOut[1])
       /\ PyEq(dotOut[1], loopOut[1]) <=> InIntRange(loopOut[1])

C16_Witness ==
  /\ pc = "end" /\ loopOut # <<>> /\ dotOut # <<>>
  /\ Len(arr1) >= 2 /\ AllInt(arr1) /\ AllInt(arr2)
  /\ ~PyEq(dotOut[1], loopOut[1])
  /\ dotOut[1].s = 1

Rebound == CropYield.kind # "function"

\* C17: every call of CropYield runs while the name is bound to the function;
\* once cell 16 has bound it to a number it is never the function again, no
\* call starts or returns from then on (cell 33 binds it to an array), and
\* cell 9 run again raises TypeError and returns nothing
C17_Rebinding ==
  /\ []((pc \in {"cell33", "cell36", "end"} /\ climateData # <<>>
           /\ raised.cell16 = "none") => Rebound)
  /\ []((pc = "cell33" /\ raised.cell16 = "none") => CropYield.kind = "number")
  /\ []((frame # <<>> /\ frame[1].fn = "CropYield") => ~Rebound)
  /\ [][/\ (log' # log /\ climateData # <<>>) => ~Rebound
        /\ Rebound => (Rebound' /\ log' = log /\ frame' = <<>>)
        /\ (raised'.cell9 # raised.cell9) =>
             (Rebound /\ raised'.cell9 = "TypeError" /\ log' = log)]_vars

C17_Witness ==
  /\ CropYield.kind = "array"
  /\ raised.cell9 = "TypeError"
  /\ raised.cell16 = "none"
  /\ Len(log) >= 2

\* cell 36 has built the augmented table
Augmented == pc \in {"cell38", "readback", "end"} /\ raised.cell30 = "none"
               /\ raised.cell36 = "none"

IsVector(v) == \A i \in 1..Len(v) : DOMAIN v[i] = {"n", "x"}

\* C11: building the augmented table changes neither climateData nor
\* CropYield: afterwards climateData is the table as loaded, with its rows
\* and columns, and CropYield is the same one-dimensional vector
C11_NoMutation ==
  /\ [][pc = "cell36" => (climateData' = climateData /\ CropYield' = CropYield)]_vars
  /\ [](Augmented =>
          /\ climateData = GenFromTxt(files.climate, Delimiter, SkipHeader).v
          /\ RowCount(climateData) = RowCount(ClimateRes)
          /\ \A i \in 1..Len(climateData) :
               Len(climateData[i].row) + 1 = Len(ClimateRes[i].row)
          /\ CropYield.kind = "array" /\ IsVector(CropYield.v)
          /\ RowCount(CropYield.v) = RowCount(climateData)
          /\ \A i \in 1..Len(CropYield.v) :
               CropYield.v[i].x = ClimateRes[i].row[Len(ClimateRes[i].row)])

C11_Witness ==
  /\ pc = "cell38" /\ raised.cell36 = "none"
  /\ Len(ClimateRes) >= 2 /\ ClimateRes[1].row # ClimateRes[2].row
  /\ IsVector(CropYield.v)

\* cell 38 has written climate_results.txt
Saved == pc \in {"readback", "end"} /\ Augmented

\* the name cell 38 adds to the input's column names
DerivedName == "yeild_apples"

\* a field reads [-]digits.digits with prec digits after the point
WellFormed(field, prec) ==
  LET body == IF field # <<>> /\ field[1] = "-" THEN Tail(field) ELSE field
  IN  /\ Len(body) >= prec + 2
      /\ \A i \in 1..Len(body) :
           IF i = Len(body) - prec THEN body[i] = "."
           ELSE \E d \in 1..Len(DigitChars) : body[i] = DigitChars[d]

\* the number a well-formed field's digits spell, in units of the last digit
FieldUnits(field) ==
  [s |-> IF field[1] = "-" THEN 1 ELSE 0,
   m |-> DigitsToNat(SelectSeq(field, LAMBDA c : c \notin {"-", "."}), <<>>),
   e |-> 0]

\* the field is x to prec decimals: it differs from x by at most half a unit
\* of its last digit
IsRounded(field, x, prec) ==
  LET units == [s |-> 0, m |-> BFromNat(Pow10(prec)), e |-> 0]
      u     == FieldUnits(field)
      d     == DAdd(DMul(Dy(x), units), DNeg([u EXCEPT !.s = IF u.m = <<>> THEN 0 ELSE @]))
  IN  DCmp(DAbs(d), [s |-> 0, m |-> <<1>>, e |-> -1]) <= 0

\* C12: the file written for a table of R rows has R + 1 lines: first the
\* input's column names and one more name joined by ',' with nothing before
\* them, then the rows in order, each row's values to two decimals joined by
\* ','
C12_SavedFormat ==
  Saved =>
    /\ RowCount(files.results) = RowCount(ClimateRes) + 1
    /\ Len(files.results) = Len(ClimateRes) + 1
    /\ files.results[1].n = 1
    /\ files.results[1].line = files.climate[1].line \o <<",", DerivedName>>
    /\ files.results[1].line =
         Join(<< <<"temperature">>, <<"rainfall">>, <<"humidity">>, <<DerivedName>> >>, ",")
    /\ \A i \in 1..Len(ClimateRes) :
         LET fields == Split(files.results[i + 1].line, ",")
         IN  /\ files.results[i + 1].n = ClimateRes[i].n
             /\ Len(fields) = Len(ClimateRes[i].row)
             /\ files.results[i + 1].line = Join(fields, ",")
             /\ \A j \in 1..Len(fields) :
                  /\ WellFormed(fields[j], SavePrecision)
                  /\ IsRounded(fields[j], ClimateRes[i].row[j], SavePrecision)

C12_Witness ==
  /\ Saved /\ Len(files.results) >= 3
  /\ RowCount(files.results) = ReshapeRows + 1
  /\ \E i \in 1..Len(ClimateRes) : \E j \in 1..Len(ClimateRes[i].row) :
       /\ ClimateRes[i].row[j].s = 1
       /\ ~PyEq(ParseFloat(Split(files.results[i + 1].line, ",")[j]), ClimateRes[i].row[j])

\* x rounded to prec decimals, ties to even, as the nearest float64
RoundTo(x, prec) ==
  LET f  == ToFloat(x)
      sc == BMul(f.m, BFromNat(Pow10(prec)))
  IN  DecimalToFloat(f.s, IF f.e >= 0 THEN BShl(sc, f.e) ELSE BRoundShr(sc, 0 - f.e), prec)

\* C13: the written file read back with the reader of cell 30 is a table of
\* the same shape as the augmented one, and each of its values is the
\* augmented table's value rounded to two decimals
C13_RoundTrip ==
  (pc = "end" /\ Saved) =>
    /\ raised.readback = "none" /\ reread # <<>>
    /\ Len(reread[1]) = Len(ClimateRes)
    /\ RowCount(reread[1]) = RowCount(ClimateRes)
    /\ \A i \in 1..Len(ClimateRes) :
         /\ reread[1][i].n = ClimateRes[i].n
         /\ Len(reread[1][i].row) = Len(ClimateRes[i].row)
         /\ \A j \in 1..Len(ClimateRes[i].row) :
              PyEq(reread[1][i].row[j], RoundTo(ClimateRes[i].row[j], SavePrecision))

C13_Witness ==
  /\ pc = "end" /\ reread # <<>>
  /\ RowCount(reread[1]) = ReshapeRows /\ Len(reread[1]) >= 2
  /\ \E i \in 1..Len(ClimateRes) : \E j \in 1..Len(ClimateRes[i].row) :
       ~PyEq(reread[1][i].row[j], ClimateRes[i].row[j])

====
